---------------------------- MODULE Spec2Model ----------------------------
(***************************************************************************)
(* Model of the money mask of the movement form                            *)
(* (finanzas/static/finanzas/js/movimiento_form.js, section 3), its        *)
(* optional-block toggle (section 1) and the pure functions it is built    *)
(* on: getNumericString, normalizeToEnglish and formatEsAr.                *)
(*                                                                         *)
(* A JavaScript string is a sequence of one-character strings, so that     *)
(* "1.234,56" is << "1", ".", "2", "3", "4", ",", "5", "6" >>.  Indices    *)
(* returned by indexOf / lastIndexOf are 0-based as in JavaScript, -1      *)
(* meaning "not found".                                                    *)
(***************************************************************************)
EXTENDS Integers, Sequences, FiniteSets, TLC

VARIABLES
    nIn,      \* text handed to normalizeToEnglish
    nEng,     \* normalizeToEnglish(nIn)
    nAgain,   \* normalizeToEnglish(nEng)
    nShown,   \* formatEsAr(nEng)
    nBack,    \* normalizeToEnglish(nShown)
    nPc,      \* position in the pipeline above ("off" in the form model)
    value,    \* value[f]: input.value of the visible money input f
    hidden,   \* hidden[f]: hidden.value of the shadow input f + "_hidden"
    named,    \* named[f]: which of the two elements carries the field's name
    disabled, \* disabled[f]: the visible input has the disabled attribute
    toggle,   \* toggle-combustible is checked
    focus,    \* the money input that has the keyboard focus, or "none"
    last,     \* the event whose handlers ran last, the field it was on,
              \* whether the input handler had to strip a character, and the
              \* text the load found in each field
    sKind,    \* the search field observed ("off" outside the search model)
    sText,    \* the text in the search field
    sLastQuery, \* lastQuery of the person search
    sTimer,   \* the pending setTimeout: the term it captured, the time left
    sGap,     \* milliseconds since the last keystroke, up to the delay
    sFlying,  \* the fetches without a settled promise chain
    sIssued,  \* number of fetches issued so far; the last one has this id
    sList,    \* the request the suggestion list shows the items of, 0: none
    sBurst,   \* fetches issued since the running burst of keystrokes began
    sLast,    \* the search event handled last
    bBlock,   \* the optional block observed ("off" outside the block model)
    bChecked, \* the block's toggle is checked
    bShown,   \* the block's section does not carry the class d-none
    bField,   \* bField[id]: value of the block's field id
    bDisabled, \* bDisabled[id]: the field has the disabled attribute
    bShadow,  \* bShadow[id]: value of the input id + "_hidden"
    bLastDni, \* lastDni of the DNI lookup
    bPending, \* DNI lookups without a response
    bLast,    \* the step of the page that ran last, the field values and
              \* the toggle state it found
    lKind,    \* the lookup observed ("off" outside the lookup model)
    lField,   \* lField[id]: value of the form field id
    lLastDni, \* lastDni of the DNI blur listener
    lFlying,  \* the lookups without a response, with the number they sent
    lLast,    \* the lookup step that ran last and the field values it found
    cMap,     \* categoriaMap: whether it was parsed, and option value -> tipo
    cOptions, \* categoriaOptions: the option values of the select as rendered
    cTipo,    \* tipoSelect.value
    cShown,   \* the option values of categoriaSelect, in order
    cSelected, \* selectedIndex + 1 of categoriaSelect (0: no option)
    cLast,    \* last event of the category filter
    kTipo,    \* val(tipoEl)
    kShown,   \* the options of categoriaEl, in order
    kSelected, \* selectedIndex + 1 of categoriaEl
    kCatDisabled, \* categoriaEl.disabled
    kLoading, \* categoriaLoading is shown
    kDisabled, \* kDisabled[f]: field f of the aid and fuel groups is disabled
    kRequired, \* kRequired[f]: field f has the required attribute
    kMeta,    \* className of categoriaMeta
    kTab,     \* the tab activated last
    kCuenta,  \* required attribute of the origin and destination account inputs
    kFlying,  \* category requests without a response: slot and tipo asked for
    kLast     \* last event of the category select

normVars == << nIn, nEng, nAgain, nShown, nBack, nPc >>
formVars == << value, hidden, named, disabled, toggle, focus, last >>
searchVars == << sKind, sText, sLastQuery, sTimer, sGap, sFlying, sIssued,
                 sList, sBurst, sLast >>
blockVars == << bBlock, bChecked, bShown, bField, bDisabled, bShadow,
                bLastDni, bPending, bLast >>
lookupVars == << lKind, lField, lLastDni, lFlying, lLast >>
catVars == << cMap, cOptions, cTipo, cShown, cSelected, cLast >>
loadVars == << kTipo, kShown, kSelected, kCatDisabled, kLoading, kDisabled, kRequired, kMeta, kTab, kCuenta, kFlying, kLast >>
vars == << nIn, nEng, nAgain, nShown, nBack, nPc,
           value, hidden, named, disabled, toggle, focus, last,
           sKind, sText, sLastQuery, sTimer, sGap, sFlying, sIssued,
           sList, sBurst, sLast,
           bBlock, bChecked, bShown, bField, bDisabled, bShadow,
           bLastDni, bPending, bLast,
           lKind, lField, lLastDni, lFlying, lLast,
           cMap, cOptions, cTipo, cShown, cSelected, cLast,
           kTipo, kShown, kSelected, kCatDisabled, kLoading, kDisabled, kRequired, kMeta, kTab, kCuenta, kFlying, kLast >>

(***************************************************************************)
(* Bounds and alphabets                                                    *)
(***************************************************************************)
MaxLen == 5        \* longest text handed to normalizeToEnglish
MaxTyped == 2      \* longest text the user has in a money input while typing

Digits == {"0", "1", "2", "3", "4", "5", "6", "7", "8", "9"}
Separators == {".", ","}
\* characters of the texts that are enumerated: two digits that differ, a
\* digit that would round up, both separators and one character the mask strips
Chars == {"0", "1", "9", ".", ",", "a"}
TypedChars == {"0", "1", ".", ",", "a"}

TextsUpTo(S, n) == UNION { [1..k -> S] : k \in 0..n }
Texts == TextsUpTo(Chars, MaxLen)

(***************************************************************************)
(* JavaScript string primitives used by the code                           *)
(***************************************************************************)
IsDigit(c) == c \in Digits

\* String.prototype.includes
includes(s, ch) == \E i \in 1..Len(s) : s[i] = ch

\* String.prototype.indexOf (0-based, -1 when absent)
indexOf(s, ch) ==
    IF includes(s, ch)
    THEN (CHOOSE i \in 1..Len(s) :
             s[i] = ch /\ \A j \in 1..(i - 1) : s[j] # ch) - 1
    ELSE -1

\* String.prototype.lastIndexOf (0-based, -1 when absent)
lastIndexOf(s, ch) ==
    IF includes(s, ch)
    THEN (CHOOSE i \in 1..Len(s) :
             s[i] = ch /\ \A j \in (i + 1)..Len(s) : s[j] # ch) - 1
    ELSE -1

\* s.replace(/ch/g, "")
removeAll(s, ch) == SelectSeq(s, LAMBDA c : c # ch)

\* s.replace(/\D/g, "")
onlyDigits(s) == SelectSeq(s, IsDigit)

\* String.prototype.split with a one-character separator
RECURSIVE split(_, _)
split(s, sep) ==
    LET i == indexOf(s, sep)
    IN  IF i = -1
        THEN << s >>
        ELSE << SubSeq(s, 1, i) >> \o split(SubSeq(s, i + 2, Len(s)), sep)

\* parts[k] || ""  (an index past the end gives undefined, hence "")
partOrEmpty(parts, k) == IF k + 1 <= Len(parts) THEN parts[k + 1] ELSE << >>

\* s.padEnd(n, "0")
RECURSIVE padEndZero(_, _)
padEndZero(s, n) == IF Len(s) >= n THEN s ELSE padEndZero(s \o << "0" >>, n)

\* s.slice(0, n)
sliceTo(s, n) == IF Len(s) <= n THEN s ELSE SubSeq(s, 1, n)

(***************************************************************************)
(* getNumericString / normalizeToEnglish                                   *)
(***************************************************************************)
\* variant of getNumericString: nothing is stripped
getNumericStringKeepAll(text) == text

getNumericString(text) ==
    SelectSeq(text, LAMBDA c : IsDigit(c) \/ c \in Separators)

\* intRaw.replace(/\D/g, "") || "0"
intPartOf(intRaw) ==
    IF onlyDigits(intRaw) = << >> THEN << "0" >> ELSE onlyDigits(intRaw)

\* variants of decOf: without padEnd, and with the last two digits kept
decOfNoPad(decRaw) == sliceTo(onlyDigits(decRaw), 2)
decOfLastTwo(decRaw) ==
    LET p == padEndZero(onlyDigits(decRaw), 2) IN SubSeq(p, Len(p) - 1, Len(p))

\* decRaw.replace(/\D/g, "").padEnd(2, "0").slice(0, 2)
decOf(decRaw) == sliceTo(padEndZero(onlyDigits(decRaw), 2), 2)

\* the five lines every decimal branch repeats: split the cleaned text at the
\* decimal separator, keep parts[0] and parts[1]
splitAtDecimal(cleaned, sep) ==
    LET parts  == split(cleaned, sep)
        intRaw == partOrEmpty(parts, 0)
        decRaw == partOrEmpty(parts, 1)
    IN  intPartOf(intRaw) \o << "." >> \o decOf(decRaw)

\* variant of isDecimalCount: one character only
isDecimalCountOne(decimalsCount) == decimalsCount = 1

\* the test of Caso 3 on the number of characters after the last "."
isDecimalCount(decimalsCount) == decimalsCount > 0 /\ decimalsCount <= 2

\* the test of Caso 1 that makes the comma the decimal separator
commaIsDecimal(lastComma, lastDot) == lastComma > lastDot

\* intPart + ".00" of Caso 3 (grouping) and Caso 4
integerOnly(text) == intPartOf(text) \o << ".", "0", "0" >>

\* variant of emptyResult: zero instead of "no amount"
zeroResult == << "0", ".", "0", "0" >>

\* the value returned when nothing is left after stripping
emptyResult == << >>

normalizeToEnglish(text0) ==
    LET text     == getNumericString(text0)
        hasComma == includes(text, ",")
        hasDot   == includes(text, ".")
    IN  IF text = << >> THEN emptyResult
        ELSE IF hasComma /\ hasDot THEN
            IF commaIsDecimal(lastIndexOf(text, ","), lastIndexOf(text, "."))
            THEN splitAtDecimal(removeAll(text, "."), ",")
            ELSE splitAtDecimal(removeAll(text, ","), ".")
        ELSE IF hasComma /\ ~hasDot THEN
            splitAtDecimal(removeAll(text, "."), ",")
        ELSE IF hasDot /\ ~hasComma THEN
            LET lastDot       == lastIndexOf(text, ".")
                decimalsCount == Len(text) - lastDot - 1
            IN  IF isDecimalCount(decimalsCount)
                THEN splitAtDecimal(removeAll(text, ","), ".")
                ELSE integerOnly(text)
        ELSE integerOnly(text)

(***************************************************************************)
(* formatEsAr: Number(eng), then Intl.NumberFormat("es-AR") with exactly   *)
(* two fraction digits                                                     *)
(***************************************************************************)
DigitVal(c) ==
    CASE c = "0" -> 0 [] c = "1" -> 1 [] c = "2" -> 2 [] c = "3" -> 3
      [] c = "4" -> 4 [] c = "5" -> 5 [] c = "6" -> 6 [] c = "7" -> 7
      [] c = "8" -> 8 [] c = "9" -> 9

DigitChar(d) ==
    CASE d = 0 -> "0" [] d = 1 -> "1" [] d = 2 -> "2" [] d = 3 -> "3"
      [] d = 4 -> "4" [] d = 5 -> "5" [] d = 6 -> "6" [] d = 7 -> "7"
      [] d = 8 -> "8" [] d = 9 -> "9"

RECURSIVE ToNat(_)
ToNat(ds) ==
    IF ds = << >> THEN 0
    ELSE 10 * ToNat(SubSeq(ds, 1, Len(ds) - 1)) + DigitVal(ds[Len(ds)])

RECURSIVE ToDigits(_)
ToDigits(n) ==
    IF n < 10 THEN << DigitChar(n) >>
    ELSE ToDigits(n \div 10) \o << DigitChar(n % 10) >>

\* Number(eng) is finite: over digits, separators and letters that is an
\* unsigned decimal literal, digits with at most one "." and at least one digit
isFiniteNumber(eng) ==
    /\ \A i \in 1..Len(eng) : IsDigit(eng[i]) \/ eng[i] = "."
    /\ Cardinality({i \in 1..Len(eng) : eng[i] = "."}) <= 1
    /\ \E i \in 1..Len(eng) : IsDigit(eng[i])

\* Number(eng), in hundredths, rounded to two fraction digits as
\* maximumFractionDigits: 2 does (half away from zero)
centsOf(eng) ==
    LET parts == split(eng, ".")
        ip    == partOrEmpty(parts, 0)
        fp    == padEndZero(partOrEmpty(parts, 1), 3)
    IN  100 * ToNat(ip) + 10 * DigitVal(fp[1]) + DigitVal(fp[2])
          + (IF DigitVal(fp[3]) >= 5 THEN 1 ELSE 0)

\* variant of groupThousands: "," between the groups, as en-US does
RECURSIVE groupThousandsComma(_)
groupThousandsComma(ds) ==
    IF Len(ds) <= 3 THEN ds
    ELSE groupThousandsComma(SubSeq(ds, 1, Len(ds) - 3))
           \o << "," >> \o SubSeq(ds, Len(ds) - 2, Len(ds))

\* es-AR grouping: "." between groups of three integer digits
RECURSIVE groupThousands(_)
groupThousands(ds) ==
    IF Len(ds) <= 3 THEN ds
    ELSE groupThousands(SubSeq(ds, 1, Len(ds) - 3))
           \o << "." >> \o SubSeq(ds, Len(ds) - 2, Len(ds))

\* variant of intlEsAr: a trailing zero of the fraction is not written
intlEsArShort(cents) ==
    groupThousands(ToDigits(cents \div 100))
      \o (IF cents % 10 = 0
          THEN << ",", DigitChar((cents % 100) \div 10) >>
          ELSE << ",", DigitChar((cents % 100) \div 10), DigitChar(cents % 10) >>)

\* new Intl.NumberFormat("es-AR", {minimumFractionDigits: 2,
\* maximumFractionDigits: 2}).format(n), n given in hundredths
intlEsAr(cents) ==
    groupThousands(ToDigits(cents \div 100))
      \o << ",", DigitChar((cents % 100) \div 10), DigitChar(cents % 10) >>

formatEsAr(eng) ==
    IF eng = << >> THEN << >>
    ELSE IF ~isFiniteNumber(eng) THEN eng
    ELSE intlEsAr(centsOf(eng))

(***************************************************************************)
(* The pure functions as a pipeline: a text is normalised, the result is   *)
(* normalised again, formatted for display, and the display text is        *)
(* normalised back.                                                        *)
(***************************************************************************)
MoneyFields == {"id_monto", "id_litros", "id_precio_unitario"}

\* the money inputs among the fieldIds of setupSectionToggle("toggle-combustible")
CombustibleMoney == {"id_litros", "id_precio_unitario"}

\* no text was read by the last handler
NoBefore == [f \in MoneyFields |-> << >>]

NoEvent == [type |-> "off", field |-> "-", stripped |-> FALSE, before |-> NoBefore]

FormOff ==
    /\ value = [f \in MoneyFields |-> << >>]
    /\ hidden = [f \in MoneyFields |-> << >>]
    /\ named = [f \in MoneyFields |-> "input"]
    /\ disabled = [f \in MoneyFields |-> FALSE]
    /\ toggle = FALSE
    /\ focus = "none"
    /\ last = NoEvent

\* no timer is pending
NoTimer == [on |-> FALSE, q |-> << >>, left |-> 0]

\* no search field is observed
SearchOff ==
    /\ sKind = "off"
    /\ sText = << >>
    /\ sLastQuery = << >>
    /\ sTimer = NoTimer
    /\ sGap = 0
    /\ sFlying = {}
    /\ sIssued = 0
    /\ sList = 0
    /\ sBurst = [sent |-> 0, q |-> << >>]
    /\ sLast = [type |-> "off", id |-> 0, armed |-> FALSE]

\* no optional block is observed
BlockOff ==
    /\ bBlock = "off"
    /\ bChecked = FALSE
    /\ bShown = FALSE
    /\ bField = << >>
    /\ bDisabled = << >>
    /\ bShadow = << >>
    /\ bLastDni = << >>
    /\ bPending = 0
    /\ bLast = [type |-> "off", before |-> << >>, checked |-> FALSE]

\* no lookup is observed
LookupOff ==
    /\ lKind = "off"
    /\ lField = << >>
    /\ lLastDni = << >>
    /\ lFlying = {}
    /\ lLast = [type |-> "off", before |-> << >>]

\* no category filter is observed
CatOff ==
    /\ cMap = [parsed |-> FALSE, of |-> [v \in {"1", "2", "3"} |-> ""]]
    /\ cOptions = << >>
    /\ cTipo = ""
    /\ cShown = << >>
    /\ cSelected = 0
    /\ cLast = [type |-> "off", value |-> "", shown |-> << >>]

\* no category select is observed
LoadOff ==
    /\ kTipo = ""
    /\ kShown = << >>
    /\ kSelected = 0
    /\ kCatDisabled = FALSE
    /\ kLoading = FALSE
    /\ kDisabled = << >>
    /\ kRequired = << >>
    /\ kMeta = ""
    /\ kTab = ""
    /\ kCuenta = << >>
    /\ kFlying = {}
    /\ kLast = [type |-> "off", applied |-> FALSE, slot |-> 0]

NormInit ==
    /\ nIn \in Texts
    /\ nEng = << >>
    /\ nAgain = << >>
    /\ nShown = << >>
    /\ nBack = << >>
    /\ nPc = "start"
    /\ FormOff
    /\ SearchOff
    /\ BlockOff
    /\ LookupOff
    /\ CatOff
    /\ LoadOff

Normalize ==
    /\ nPc = "start"
    /\ nEng' = normalizeToEnglish(nIn)
    /\ nPc' = "normalized"
    /\ UNCHANGED << nIn, nAgain, nShown, nBack, formVars, searchVars, blockVars, lookupVars, catVars, loadVars >>

Renormalize ==
    /\ nPc = "normalized"
    /\ nAgain' = normalizeToEnglish(nEng)
    /\ nPc' = "renormalized"
    /\ UNCHANGED << nIn, nEng, nShown, nBack, formVars, searchVars, blockVars, lookupVars, catVars, loadVars >>

Format ==
    /\ nPc = "renormalized"
    /\ nShown' = formatEsAr(nEng)
    /\ nPc' = "formatted"
    /\ UNCHANGED << nIn, nEng, nAgain, nBack, formVars, searchVars, blockVars, lookupVars, catVars, loadVars >>

Reparse ==
    /\ nPc = "formatted"
    /\ nBack' = normalizeToEnglish(nShown)
    /\ nPc' = "done"
    /\ UNCHANGED << nIn, nEng, nAgain, nShown, formVars, searchVars, blockVars, lookupVars, catVars, loadVars >>

NormNext == Normalize \/ Renormalize \/ Format \/ Reparse

SpecNorm == NormInit /\ [][NormNext]_vars

(***************************************************************************)
(* The movement form: setupSectionToggle("toggle-combustible", ...) and    *)
(* setupMoneyInput for id_monto, id_litros and id_precio_unitario.         *)
(***************************************************************************)
\* the values the server may have rendered into a money input
ServerValues ==
    { << >>, << "1", ".", "5" >>, << "0", "1" >>, << "a" >>, << "1", ",", "5", "a" >> }

NormOff ==
    /\ nIn = << >>
    /\ nEng = << >>
    /\ nAgain = << >>
    /\ nShown = << >>
    /\ nBack = << >>
    /\ nPc = "off"

\* field.value && field.value.trim() !== ""  (the texts here hold no blank)
hasValue(v) == v # << >>

\* applyState at initialisation, before any hidden input exists: an inactive
\* block has its fields cleared, an active one keeps them
applyStateValue(active, f, v) ==
    IF f \in CombustibleMoney /\ ~active THEN << >> ELSE v

\* setupMoneyInput: the hidden input's first value
initHidden(v) == IF v # << >> THEN normalizeToEnglish(v) ELSE << >>

\* setupMoneyInput: the visible input's first value
initValue(v) == IF v # << >> THEN formatEsAr(normalizeToEnglish(v)) ELSE v

\* hidden.name = input.name; input.removeAttribute("name")
nameCarrier == "hidden"

FormInit ==
    /\ NormOff
    /\ SearchOff
    /\ BlockOff
    /\ LookupOff
    /\ CatOff
    /\ LoadOff
    /\ \E server \in [MoneyFields -> ServerValues], checked \in BOOLEAN,
          otherHasValue \in BOOLEAN :
          LET active == \/ checked
                        \/ otherHasValue
                        \/ \E f \in CombustibleMoney : hasValue(server[f])
              loaded == [f \in MoneyFields |-> applyStateValue(active, f, server[f])]
          IN  /\ toggle = active
              /\ disabled = [f \in MoneyFields |-> f \in CombustibleMoney /\ ~active]
              /\ hidden = [f \in MoneyFields |-> initHidden(loaded[f])]
              /\ value = [f \in MoneyFields |-> initValue(loaded[f])]
              /\ last = [type |-> "load", field |-> "-", stripped |-> FALSE,
                          before |-> loaded]
    /\ named = [f \in MoneyFields |-> nameCarrier]
    /\ focus = "none"

\* raw.replace(/[^0-9.,]/g, ""), written back to the input when it differs
inputValue(raw) == SelectSeq(raw, LAMBDA c : IsDigit(c) \/ c \in Separators)

\* variant of inputHidden: the visible text copied as it is
inputHiddenCopy(raw) == inputValue(raw)

\* hidden.value = normalizeToEnglish(input.value) at the end of the handler
inputHidden(raw) == normalizeToEnglish(inputValue(raw))

\* the texts one edit of the visible input can leave in it: a character
\* typed at the end, or the last character deleted
Edits(v) ==
    { v \o << c >> : c \in (IF Len(v) < MaxTyped THEN TypedChars ELSE {}) }
      \cup (IF v # << >> THEN { SubSeq(v, 1, Len(v) - 1) } ELSE {})

\* The user puts the cursor into an enabled money input.  No handler of the
\* form listens to focus: nothing but the focus moves.
FocusField(f) ==
    /\ nPc = "off"
    /\ focus = "none"
    /\ ~disabled[f]
    /\ focus' = f
    /\ UNCHANGED << value, hidden, named, disabled, toggle, last, normVars, searchVars, blockVars, lookupVars, catVars, loadVars >>

\* input events reach the input that has the focus
InputEvent(f) ==
    /\ nPc = "off"
    /\ focus = f
    /\ \E raw \in Edits(value[f]) :
          /\ value' = [value EXCEPT ![f] = inputValue(raw)]
          /\ hidden' = [hidden EXCEPT ![f] = inputHidden(raw)]
          /\ last' = [type |-> "input", field |-> f,
                      stripped |-> inputValue(raw) # raw, before |-> NoBefore]
    /\ UNCHANGED << named, disabled, toggle, focus, normVars, searchVars, blockVars, lookupVars, catVars, loadVars >>

blurHidden(v) == IF v = << >> THEN << >> ELSE normalizeToEnglish(v)

\* variant of blurValue: the text stays as typed
blurValueKeep(v) == v

blurValue(v) == IF v = << >> THEN v ELSE formatEsAr(normalizeToEnglish(v))

\* the input that has the focus loses it
BlurEvent(f) ==
    /\ nPc = "off"
    /\ focus = f
    /\ focus' = "none"
    /\ hidden' = [hidden EXCEPT ![f] = blurHidden(value[f])]
    /\ value' = [value EXCEPT ![f] = blurValue(value[f])]
    /\ last' = [type |-> "blur", field |-> f, stripped |-> FALSE,
                before |-> NoBefore]
    /\ UNCHANGED << named, disabled, toggle, normVars, searchVars, blockVars, lookupVars, catVars, loadVars >>

\* clearField: field.value = "" and hidden.value = ""
clearedValue == << >>
clearedHidden == << >>

\* the change handler of toggle-combustible: applyState
ToggleChange ==
    /\ nPc = "off"
    /\ toggle' = ~toggle
    /\ disabled' = [f \in MoneyFields |-> f \in CombustibleMoney /\ ~toggle']
    /\ value' = [f \in MoneyFields |->
                    IF f \in CombustibleMoney /\ ~toggle' THEN clearedValue
                    ELSE value[f]]
    /\ hidden' = [f \in MoneyFields |->
                    IF f \in CombustibleMoney /\ ~toggle' THEN clearedHidden
                    ELSE hidden[f]]
    /\ focus' = IF focus \in CombustibleMoney /\ ~toggle' THEN "none" ELSE focus
    /\ last' = [type |-> "change", field |-> "-", stripped |-> FALSE,
                before |-> NoBefore]
    /\ UNCHANGED << named, normVars, searchVars, blockVars, lookupVars, catVars, loadVars >>

\* variant of submitHidden: the visible text copied as it is
submitHiddenCopy(v) == v

submitHidden(v) == IF v = << >> THEN << >> ELSE normalizeToEnglish(v)

\* the submit listeners of the three money inputs, all run on one submit
SubmitEvent ==
    /\ nPc = "off"
    /\ hidden' = [f \in MoneyFields |-> submitHidden(value[f])]
    /\ last' = [type |-> "submit", field |-> "-", stripped |-> FALSE,
                before |-> NoBefore]
    /\ UNCHANGED << value, named, disabled, toggle, focus, normVars, searchVars, blockVars, lookupVars, catVars, loadVars >>

Next ==
    \/ \E f \in MoneyFields : FocusField(f)
    \/ \E f \in MoneyFields : InputEvent(f)
    \/ \E f \in MoneyFields : BlurEvent(f)
    \/ ToggleChange
    \/ SubmitEvent

Spec == FormInit /\ [][Next]_vars

(***************************************************************************)
(* The name searches: the person search of the attention form              *)
(* (atencion_form.js, section 2) and of the movement form, the vehicle     *)
(* search of the movement form, the provider search                        *)
(* (movimiento_proveedor.js) and the requester search of the work order.   *)
(* One field is observed at a time.  Time is counted in steps of TickMs    *)
(* milliseconds; a timer whose delay has passed runs before the clock      *)
(* moves on and before the next keystroke is handled.                      *)
(***************************************************************************)
MaxQuery == 3      \* longest text in a search field
MaxRequests == 2   \* fetches issued in one run
TickMs == 125      \* milliseconds in one step of the clock

\* setTimeout(..., 250) of the person search
personaDelay == 250
\* setTimeout(..., 250) of the provider search
proveedorDelay == 250
\* setTimeout(..., 300) of the requester search
solicitanteDelay == 300

\* the searches that abort the fetch in flight before they issue the next
Aborting == {"persona", "beneficiario", "vehiculo"}
\* the searches with the lastQuery check of the person search
PersonSearches == {"persona", "beneficiario"}
SearchKinds == {"persona", "beneficiario", "vehiculo", "proveedor", "solicitante"}

\* the delay of the field's setTimeout; the vehicle search has none
debounceMs(kind) ==
    CASE kind \in PersonSearches -> personaDelay
      [] kind = "proveedor" -> proveedorDelay
      [] kind = "solicitante" -> solicitanteDelay
      [] OTHER -> 0

\* a letter and a blank, which trim() removes at both ends
SearchChars == {"a", " "}

RECURSIVE trimStart(_)
trimStart(s) == IF s # << >> /\ Head(s) = " " THEN trimStart(Tail(s)) ELSE s

RECURSIVE trimEnd(_)
trimEnd(s) ==
    IF s # << >> /\ s[Len(s)] = " " THEN trimEnd(SubSeq(s, 1, Len(s) - 1)) ELSE s

\* String.prototype.trim
trim(s) == trimEnd(trimStart(s))

\* the texts one keystroke can leave in the search field
SearchEdits(v) ==
    { v \o << c >> : c \in (IF Len(v) < MaxQuery THEN SearchChars ELSE {}) }
      \cup (IF v # << >> THEN { SubSeq(v, 1, Len(v) - 1) } ELSE {})

SearchInit ==
    /\ NormOff
    /\ FormOff
    /\ BlockOff
    /\ LookupOff
    /\ CatOff
    /\ LoadOff
    /\ sKind \in SearchKinds
    /\ sText = << >>
    /\ sLastQuery = << >>
    /\ sTimer = NoTimer
    /\ sGap = debounceMs(sKind)
    /\ sFlying = {}
    /\ sIssued = 0
    /\ sList = 0
    /\ sBurst = [sent |-> 0, q |-> << >>]
    /\ sLast = [type |-> "load", id |-> 0, armed |-> FALSE]

\* a timer whose delay has passed and whose callback has not run yet
TimerDue == sTimer.on /\ sTimer.left <= 0

\* the keystroke opens a burst when the delay has passed since the last one
burstAfterKey == IF sGap >= debounceMs(sKind) THEN [sent |-> 0, q |-> << >>] ELSE sBurst

\* variant of abortInFlight: the fetch in flight is left alone
abortNothing(flying, id) == flying

\* abortController.abort(): the fetch the controller belongs to, the one
\* issued last, is aborted if its promise chain has not settled
abortInFlight(flying, id) ==
    { IF r.id = id THEN [r EXCEPT !.aborted = TRUE] ELSE r : r \in flying }

\* fetch(url + "?q=" + ...): the requests in flight after one is issued, the
\* ones before it aborted where the code aborts them.  No handler reads the
\* term back from a response, so a request in flight is its number and
\* whether its signal is aborted.
issued(flying) ==
    (IF sKind \in Aborting THEN abortInFlight(flying, sIssued) ELSE flying)
        \cup { [id |-> sIssued + 1, aborted |-> FALSE] }

\* setTimeout(function () { ... }, delay) with the term it captured
setTimeout(q) == [on |-> TRUE, q |-> q, left |-> debounceMs(sKind)]

\* input listener of the person search
PersonaInput ==
    /\ sKind \in PersonSearches
    /\ ~TimerDue
    /\ \E text \in SearchEdits(sText) :
          LET q == trim(text)
          IN  /\ sText' = text
              /\ IF Len(q) < 2
                 THEN /\ sLastQuery' = << >>
                      /\ sList' = 0
                      /\ sTimer' = sTimer
                      /\ sLast' = [type |-> "input", id |-> 0, armed |-> FALSE]
                 ELSE IF q = sLastQuery
                 THEN /\ UNCHANGED << sLastQuery, sList, sTimer >>
                      /\ sLast' = [type |-> "input", id |-> 0, armed |-> FALSE]
                 ELSE /\ sLastQuery' = q
                      /\ sList' = sList
                      /\ sTimer' = setTimeout(q)
                      /\ sLast' = [type |-> "input", id |-> 0, armed |-> TRUE]
    /\ sGap' = 0
    /\ sBurst' = burstAfterKey
    /\ UNCHANGED << sKind, sFlying, sIssued, normVars, formVars, blockVars, lookupVars, catVars, loadVars >>

\* input listener of the vehicle search: no timer, the fetch is issued at once
VehiculoInput ==
    /\ sKind = "vehiculo"
    /\ \E text \in SearchEdits(sText) :
          LET q == trim(text)
          IN  /\ sText' = text
              /\ IF q = << >>
                 THEN /\ sList' = 0
                      /\ UNCHANGED << sFlying, sIssued >>
                      /\ sBurst' = burstAfterKey
                 ELSE /\ sIssued < MaxRequests
                      /\ sList' = sList
                      /\ sFlying' = issued(sFlying)
                      /\ sIssued' = sIssued + 1
                      /\ sBurst' = [sent |-> burstAfterKey.sent + 1, q |-> q]
    /\ sGap' = 0
    /\ sLast' = [type |-> "input", id |-> 0, armed |-> FALSE]
    /\ UNCHANGED << sKind, sLastQuery, sTimer, normVars, formVars, blockVars, lookupVars, catVars, loadVars >>

\* input listener of the provider search
ProveedorInput ==
    /\ sKind = "proveedor"
    /\ ~TimerDue
    /\ \E text \in SearchEdits(sText) :
          LET term == trim(text)
          IN  /\ sText' = text
              /\ IF term = << >> \/ Len(term) < 2
                 THEN /\ sList' = 0
                      /\ sTimer' = sTimer
                      /\ sLast' = [type |-> "input", id |-> 0, armed |-> FALSE]
                 ELSE /\ sList' = sList
                      /\ sTimer' = setTimeout(term)
                      /\ sLast' = [type |-> "input", id |-> 0, armed |-> TRUE]
    /\ sGap' = 0
    /\ sBurst' = burstAfterKey
    /\ UNCHANGED << sKind, sLastQuery, sFlying, sIssued, normVars, formVars, blockVars, lookupVars, catVars, loadVars >>

\* input listener of the requester search: the text is captured as it is
SolicitanteInput ==
    /\ sKind = "solicitante"
    /\ ~TimerDue
    /\ \E text \in SearchEdits(sText) :
          /\ sText' = text
          /\ sTimer' = setTimeout(text)
    /\ sGap' = 0
    /\ sBurst' = burstAfterKey
    /\ sLast' = [type |-> "input", id |-> 0, armed |-> TRUE]
    /\ UNCHANGED << sKind, sLastQuery, sFlying, sIssued, sList, normVars, formVars, blockVars, lookupVars, catVars, loadVars >>

\* time passes while no timer is due; it is counted up to the delay
Tick ==
    /\ sKind \in SearchKinds
    /\ ~TimerDue
    /\ sGap < debounceMs(sKind)
    /\ sGap' = sGap + TickMs
    /\ sTimer' = IF sTimer.on THEN [sTimer EXCEPT !.left = @ - TickMs] ELSE sTimer
    /\ UNCHANGED << sKind, sText, sLastQuery, sFlying, sIssued, sList, sBurst,
                    sLast, normVars, formVars, blockVars, lookupVars, catVars, loadVars >>

\* the callback of the timer: fetchSuggestions(q) in the person search, the
\* fetch in the provider search, buscarPersonas(q) in the requester search
TimerFires ==
    /\ TimerDue
    /\ LET q == IF sKind = "solicitante" THEN trim(sTimer.q) ELSE sTimer.q
       IN  IF sKind = "solicitante" /\ (q = << >> \/ Len(q) < 2)
           THEN /\ sList' = 0
                /\ UNCHANGED << sFlying, sIssued, sBurst >>
           ELSE /\ sIssued < MaxRequests
                /\ sFlying' = issued(sFlying)
                /\ sIssued' = sIssued + 1
                /\ sBurst' = [sent |-> sBurst.sent + 1, q |-> q]
                /\ sList' = sList
    /\ sTimer' = NoTimer
    /\ sLast' = [type |-> "timer", id |-> 0, armed |-> FALSE]
    /\ UNCHANGED << sKind, sText, sLastQuery, sGap, normVars, formVars, blockVars, lookupVars, catVars, loadVars >>

\* what the server can answer: a list with items, an empty list, or a
\* response that is not ok / a network error
Outcomes == {"items", "empty", "error"}

\* the promise chain of one fetch settles: an aborted fetch rejects with
\* AbortError and the catch returns; another one renders or clears the list
Respond(r) ==
    /\ r \in sFlying
    /\ sFlying' = sFlying \ {r}
    /\ IF r.aborted
       THEN /\ sList' = sList
            /\ sLast' = [type |-> "aborted", id |-> r.id, armed |-> FALSE]
       ELSE \E outcome \in Outcomes :
               /\ sList' = CASE outcome = "items" -> r.id
                             [] outcome = "empty" -> 0
                             [] OTHER -> IF sKind = "vehiculo" THEN sList ELSE 0
               /\ sLast' = [type |-> IF outcome = "error" THEN "error" ELSE "render",
                            id |-> r.id, armed |-> FALSE]
    /\ UNCHANGED << sKind, sText, sLastQuery, sTimer, sGap, sIssued, sBurst,
                    normVars, formVars, blockVars, lookupVars, catVars, loadVars >>

\* a click outside the field and its list: clearSuggestions.  The work order
\* has no such listener.
ClickOutside ==
    /\ sKind \in SearchKinds \ {"solicitante"}
    /\ sList # 0
    /\ sList' = 0
    /\ sLast' = [type |-> "click", id |-> 0, armed |-> FALSE]
    /\ UNCHANGED << sKind, sText, sLastQuery, sTimer, sGap, sFlying, sIssued,
                    sBurst, normVars, formVars, blockVars, lookupVars, catVars, loadVars >>

SearchNext ==
    \/ PersonaInput
    \/ VehiculoInput
    \/ ProveedorInput
    \/ SolicitanteInput
    \/ Tick
    \/ TimerFires
    \/ \E r \in sFlying : Respond(r)
    \/ ClickOutside

SpecSearch == SearchInit /\ [][SearchNext]_vars

(***************************************************************************)
(* The optional blocks of the movement form: setupSectionToggle for        *)
(* proveedor, beneficiario and combustible, the money mask of the          *)
(* combustible block and the DNI lookup of the beneficiario block.  One    *)
(* block is observed at a time: each call of setupSectionToggle closes     *)
(* over its own toggle, section and fieldIds.                              *)
(***************************************************************************)
MaxLookups == 2    \* DNI lookups without a response at one time

Blocks == {"proveedor", "beneficiario", "combustible"}

\* the fieldIds argument of the three calls of setupSectionToggle
fieldIds(b) ==
    CASE b = "proveedor" -> {"id_proveedor_cuit", "id_proveedor_nombre"}
      [] b = "beneficiario" ->
            {"id_beneficiario_dni", "id_beneficiario_nombre",
             "id_beneficiario_direccion", "id_beneficiario_barrio"}
      [] b = "combustible" ->
            {"id_vehiculo_texto", "id_vehiculo", "id_litros",
             "id_precio_unitario", "id_tipo_combustible"}
      [] OTHER -> {}

\* the fields of the block for which an input id + "_hidden" exists once
\* setupMoneyInput has run
shadowIds(b) == fieldIds(b) \cap MoneyFields

\* the fields the DNI lookup fills in
LookupFields ==
    {"id_beneficiario_nombre", "id_beneficiario_direccion", "id_beneficiario_barrio"}

\* what the server renders into a field, and what the user leaves in one:
\* nothing, a blank, a digit
BlockValues == { << >>, << " " >>, << "1" >> }

\* data.nombre || "", data.direccion || "", data.barrio || ""
LookupValues == { << >>, << "a" >> }

NoFields(b) == [id \in fieldIds(b) |-> << >>]

\* variant of hasAnyValue: only the first field of the block is looked at
hasAnyValueFirst(vals) ==
    \E id \in {"id_proveedor_cuit", "id_beneficiario_dni", "id_vehiculo_texto"}
                \cap DOMAIN vals :
        vals[id] # << >> /\ trim(vals[id]) # << >>

\* fieldIds.some(id => field && field.value && field.value.trim() !== "")
hasAnyValue(vals) ==
    \E id \in DOMAIN vals : vals[id] # << >> /\ trim(vals[id]) # << >>

\* variant of applyStateFields: an inactive block keeps its field values
applyStateFieldsKeep(active, vals) == vals

\* applyState on the fields: clearField empties each field of an inactive block
applyStateFields(active, vals) ==
    [id \in DOMAIN vals |-> IF active THEN vals[id] ELSE clearedValue]

\* applyState on the hidden inputs: clearField empties those of an inactive block
applyStateShadows(active, shadows) ==
    [id \in DOMAIN shadows |-> IF active THEN shadows[id] ELSE clearedHidden]

\* applyState on the disabled attribute of the fields
applyStateDisabled(active, ids) == [id \in ids |-> ~active]

\* The page as the server rendered it, before the DOMContentLoaded handler.
BlockInit ==
    /\ NormOff
    /\ FormOff
    /\ SearchOff
    /\ LookupOff
    /\ CatOff
    /\ LoadOff
    /\ bBlock \in Blocks
    /\ bChecked \in BOOLEAN
    /\ bShown \in BOOLEAN
    /\ bField \in [fieldIds(bBlock) -> BlockValues]
    /\ bDisabled = [id \in fieldIds(bBlock) |-> FALSE]
    /\ bShadow = [id \in shadowIds(bBlock) |-> << >>]
    /\ bLastDni = << >>
    /\ bPending = 0
    /\ bLast = [type |-> "page", before |-> NoFields(bBlock), checked |-> FALSE]

\* the listeners are attached: the DOMContentLoaded handler has returned
Ready == bLast.type \notin {"off", "page", "toggle-init"}

\* DOMContentLoaded, first part: the call of setupSectionToggle for the block.
\* No input id + "_hidden" exists yet, clearField finds none.
SetupSectionToggle ==
    /\ bLast.type = "page"
    /\ LET active == bChecked \/ hasAnyValue(bField)
       IN  /\ bChecked' = active
           /\ bShown' = active
           /\ bDisabled' = applyStateDisabled(active, fieldIds(bBlock))
           /\ bField' = applyStateFields(active, bField)
    /\ bLast' = [type |-> "toggle-init", before |-> bField, checked |-> bChecked]
    /\ UNCHANGED << bBlock, bShadow, bLastDni, bPending, normVars, formVars, searchVars, lookupVars, catVars, loadVars >>

\* DOMContentLoaded, second part: setupMoneyInput for the money inputs of the
\* block creates the hidden input and formats the visible one
SetupMoneyInput ==
    /\ bLast.type = "toggle-init"
    /\ bShadow' = [id \in shadowIds(bBlock) |-> initHidden(bField[id])]
    /\ bField' = [id \in fieldIds(bBlock) |->
                    IF id \in shadowIds(bBlock) THEN initValue(bField[id])
                    ELSE bField[id]]
    /\ bLast' = [type |-> "ready", before |-> NoFields(bBlock), checked |-> bChecked]
    /\ UNCHANGED << bBlock, bChecked, bShown, bDisabled, bLastDni, bPending,
                    normVars, formVars, searchVars, lookupVars, catVars, loadVars >>

\* the user flips the toggle: applyState as change listener
BlockToggleChange ==
    /\ Ready
    /\ bChecked' = ~bChecked
    /\ bShown' = bChecked'
    /\ bDisabled' = applyStateDisabled(bChecked', fieldIds(bBlock))
    /\ bField' = applyStateFields(bChecked', bField)
    /\ bShadow' = applyStateShadows(bChecked', bShadow)
    /\ bLast' = [type |-> "change", before |-> bField, checked |-> bChecked]
    /\ UNCHANGED << bBlock, bLastDni, bPending, normVars, formVars, searchVars, lookupVars, catVars, loadVars >>

\* what the vehicle search returns: items with an id and some of label,
\* descripcion and patente; the last one comes without an id
Suggestions ==
    { [id |-> << "1" >>, label |-> << >>, descripcion |-> << >>, patente |-> << "1" >>],
      [id |-> << "2" >>, label |-> << "v" >>, descripcion |-> << "d" >>, patente |-> << "p" >>],
      [id |-> << "3" >>, label |-> << >>, descripcion |-> << >>, patente |-> << >>],
      [id |-> << >>, label |-> << "x" >>, descripcion |-> << >>, patente |-> << >>] }

\* btn.textContent = item.label || item.descripcion || item.patente ||
\*                   ("Vehículo #" + item.id)
textContent(item) ==
    IF item.label # << >> THEN item.label
    ELSE IF item.descripcion # << >> THEN item.descripcion
    ELSE IF item.patente # << >> THEN item.patente
    ELSE << "#" >> \o item.id

\* variant of hiddenOnInput: typing into the vehicle text keeps the key
hiddenKept(key) == key

\* input listener of id_vehiculo_texto: hidden.value = ""
hiddenOnInput(key) == << >>

\* The user replaces the text of an enabled field of a visible block.  A
\* money input runs its input listener; the vehicle text resets the vehicle
\* key, which no user types into.
BlockInput(id) ==
    /\ Ready
    /\ id \in fieldIds(bBlock) \ {"id_vehiculo"}
    /\ bShown
    /\ ~bDisabled[id]
    /\ \E raw \in BlockValues :
          /\ raw # bField[id]
          /\ bField' = [f \in fieldIds(bBlock) |->
                          IF f = id
                          THEN (IF id \in shadowIds(bBlock) THEN inputValue(raw) ELSE raw)
                          ELSE IF f = "id_vehiculo" /\ id = "id_vehiculo_texto"
                          THEN hiddenOnInput(bField[f])
                          ELSE bField[f]]
          /\ bShadow' = [f \in shadowIds(bBlock) |->
                           IF f = id THEN inputHidden(raw) ELSE bShadow[f]]
    /\ bLast' = [type |-> "input", before |-> NoFields(bBlock), checked |-> bChecked]
    /\ UNCHANGED << bBlock, bChecked, bShown, bDisabled, bLastDni, bPending,
                    normVars, formVars, searchVars, lookupVars, catVars, loadVars >>

\* blur listener of a money input of the block
BlockMoneyBlur(id) ==
    /\ Ready
    /\ id \in shadowIds(bBlock)
    /\ bShown
    /\ ~bDisabled[id]
    /\ bField' = [bField EXCEPT ![id] = blurValue(bField[id])]
    /\ bShadow' = [bShadow EXCEPT ![id] = blurHidden(bField[id])]
    /\ bLast' = [type |-> "blur", before |-> NoFields(bBlock), checked |-> bChecked]
    /\ UNCHANGED << bBlock, bChecked, bShown, bDisabled, bLastDni, bPending,
                    normVars, formVars, searchVars, lookupVars, catVars, loadVars >>

\* click listener of a suggestion button: the text becomes the button's
\* text and the key the item's id.  The suggestion list is part of the
\* combustible section and can be clicked while the section is shown.
SuggestionClick ==
    /\ Ready
    /\ bBlock = "combustible"
    /\ bShown
    /\ ~bDisabled["id_vehiculo_texto"]
    /\ \E item \in Suggestions :
          bField' = [bField EXCEPT !["id_vehiculo_texto"] = textContent(item),
                                   !["id_vehiculo"] = item.id]
    /\ bLast' = [type |-> "pick", before |-> NoFields(bBlock), checked |-> bChecked]
    /\ UNCHANGED << bBlock, bChecked, bShown, bDisabled, bShadow, bLastDni, bPending,
                    normVars, formVars, searchVars, lookupVars, catVars, loadVars >>

\* blur listener of id_beneficiario_dni: the lookup is sent unless the DNI is
\* empty or the one looked up last; an unchecked toggle is checked first and
\* its change event dispatched
DniBlur ==
    /\ Ready
    /\ bBlock = "beneficiario"
    /\ LET dni == trim(bField["id_beneficiario_dni"])
       IN  IF dni = << >>
           THEN /\ bLastDni' = << >>
                /\ UNCHANGED << bChecked, bShown, bDisabled, bField, bPending >>
           ELSE IF dni = bLastDni
           THEN UNCHANGED << bLastDni, bChecked, bShown, bDisabled, bField, bPending >>
           ELSE /\ bPending < MaxLookups
                /\ IF ~bChecked
                   THEN /\ bChecked' = TRUE
                        /\ bShown' = TRUE
                        /\ bDisabled' = applyStateDisabled(TRUE, fieldIds(bBlock))
                        /\ bField' = applyStateFields(TRUE, bField)
                   ELSE UNCHANGED << bChecked, bShown, bDisabled, bField >>
                /\ bLastDni' = dni
                /\ bPending' = bPending + 1
    /\ bLast' = [type |-> "blur", before |-> NoFields(bBlock), checked |-> bChecked]
    /\ UNCHANGED << bBlock, bShadow, normVars, formVars, searchVars, lookupVars, catVars, loadVars >>

\* variant of filled: the value of the response is written into the field
\* whatever it holds
filledAlways(v, data) == data

\* if (field && !field.value) field.value = data.x || ""
filled(v, data) == IF v = << >> THEN data ELSE v

\* The response to a DNI lookup arrives: a person that was found is written
\* into the name, address and neighbourhood fields that are empty; a person
\* not found and a failed request only change the alert box.
LookupResponse ==
    /\ Ready
    /\ bPending > 0
    /\ bPending' = bPending - 1
    /\ \/ \E data \in [LookupFields -> LookupValues] :
             bField' = [id \in fieldIds(bBlock) |->
                          IF id \in LookupFields THEN filled(bField[id], data[id])
                          ELSE bField[id]]
       \/ bField' = bField
    /\ bLast' = [type |-> "response", before |-> bField, checked |-> bChecked]
    /\ UNCHANGED << bBlock, bChecked, bShown, bDisabled, bShadow, bLastDni,
                    normVars, formVars, searchVars, lookupVars, catVars, loadVars >>

BlockNext ==
    \/ SetupSectionToggle
    \/ SetupMoneyInput
    \/ BlockToggleChange
    \/ \E id \in fieldIds(bBlock) : BlockInput(id)
    \/ \E id \in shadowIds(bBlock) : BlockMoneyBlur(id)
    \/ SuggestionClick
    \/ DniBlur
    \/ LookupResponse

SpecBlocks == BlockInit /\ [][BlockNext]_vars

(***************************************************************************)
(* The lookups by number: the DNI lookup of the movement form and of the   *)
(* attention form (atencion_form.js, section 1) and the CUIT lookup of     *)
(* the provider form (movimiento_proveedor.js).  One form is observed at   *)
(* a time.  The fields are those of a block that is switched on; the       *)
(* toggle of the movement form is in the block model above.                *)
(***************************************************************************)
LookupKinds == {"movimiento", "atencion", "proveedor"}

\* the field the number is typed into, and the fields a response can reach
lookupIds(kind) ==
    CASE kind = "movimiento" ->
            {"id_beneficiario_dni", "id_beneficiario_nombre",
             "id_beneficiario_direccion", "id_beneficiario_barrio"}
      [] kind = "atencion" ->
            {"id_persona_dni", "id_persona_nombre", "id_persona_barrio", "id_persona"}
      [] kind = "proveedor" -> {"id_proveedor_cuit", "id_proveedor_nombre"}
      [] OTHER -> {}

\* a CUIT of 8 digits typed with a dash, and one that is too short
CuitTyped == << "2", "0", "-", "1", "2", "3", "4", "5", "6" >>
CuitShort == << "2", "0" >>

\* what a field can hold: by the server's rendering or the user's typing
lookupValues(id) ==
    CASE id \in {"id_beneficiario_dni", "id_persona_dni"} -> { << >>, << "1" >> }
      [] id = "id_proveedor_cuit" -> { << >>, CuitShort, CuitTyped }
      [] id = "id_persona" -> { << >>, << "3" >>, << "7" >> }
      [] OTHER -> { << >>, << " " >>, << "u" >> }

\* what a response can carry for the person link: no id, or an id
LookupIds == { << >>, << "7" >> }

\* (raw || "").replace(/[^\d]/g, "")
normalizeCuit(raw) == onlyDigits(raw)

LookupInit ==
    /\ NormOff
    /\ FormOff
    /\ SearchOff
    /\ BlockOff
    /\ CatOff
    /\ LoadOff
    /\ lKind \in LookupKinds
    /\ \E server \in [lookupIds(lKind) -> UNION { lookupValues(id) : id \in lookupIds(lKind) }] :
          /\ \A id \in lookupIds(lKind) : server[id] \in lookupValues(id)
          /\ lField = server
    /\ lLastDni = << >>
    /\ lFlying = {}
    /\ lLast = [type |-> "load", before |-> [id \in lookupIds(lKind) |-> << >>]]

NoLookupBefore == [id \in lookupIds(lKind) |-> << >>]

\* the user changes the text of a field, or the option of the person select
LookupEdit(id) ==
    /\ id \in lookupIds(lKind)
    /\ \E v \in lookupValues(id) :
          /\ v # lField[id]
          /\ lField' = [lField EXCEPT ![id] = v]
    /\ lLast' = [type |-> "edit", before |-> NoLookupBefore]
    /\ UNCHANGED << lKind, lLastDni, lFlying, normVars, formVars, searchVars, blockVars, catVars, loadVars >>

\* the lookups in flight after one more is sent for the number raw
sent(flying, raw) ==
    flying \cup { [n |-> CHOOSE k \in 1..MaxLookups : \A r \in flying : r.n # k,
                   raw |-> raw] }

\* blur listener of the DNI field, movement form and attention form
DniBlurLookup ==
    /\ lKind \in {"movimiento", "atencion"}
    /\ LET dni == trim(lField[IF lKind = "movimiento" THEN "id_beneficiario_dni"
                              ELSE "id_persona_dni"])
       IN  IF dni = << >>
           THEN /\ lLastDni' = << >>
                /\ lFlying' = lFlying
           ELSE IF dni = lLastDni
           THEN UNCHANGED << lLastDni, lFlying >>
           ELSE /\ Cardinality(lFlying) < MaxLookups
                /\ lLastDni' = dni
                /\ lFlying' = sent(lFlying, dni)
    /\ lLast' = [type |-> "blur", before |-> NoLookupBefore]
    /\ UNCHANGED << lKind, lField, normVars, formVars, searchVars, blockVars, catVars, loadVars >>

\* blur listener of the CUIT field
CuitBlurLookup ==
    /\ lKind = "proveedor"
    /\ LET raw == normalizeCuit(lField["id_proveedor_cuit"])
       IN  IF raw = << >> \/ Len(raw) < 8
           THEN lFlying' = lFlying
           ELSE /\ Cardinality(lFlying) < MaxLookups
                /\ lFlying' = sent(lFlying, raw)
    /\ lLast' = [type |-> "blur", before |-> NoLookupBefore]
    /\ UNCHANGED << lKind, lField, lLastDni, normVars, formVars, searchVars, blockVars, catVars, loadVars >>

\* if (nombre && nombreInput && !nombreInput.value) nombreInput.value = nombre
filledIfAny(v, data) == IF data # << >> /\ v = << >> THEN data ELSE v

\* if (personaSelect && data.id) personaSelect.value = String(data.id)
linked(v, id) == IF id # << >> THEN id ELSE v

\* the fields after a response that found a person or a provider
foundFields(kind, fields, data, id, raw) ==
    [f \in DOMAIN fields |->
        CASE kind = "movimiento" /\ f \in LookupFields -> filled(fields[f], data)
          [] kind = "atencion" /\ f \in {"id_persona_nombre", "id_persona_barrio"} ->
                filled(fields[f], data)
          [] kind = "atencion" /\ f = "id_persona" -> linked(fields[f], id)
          [] kind = "proveedor" /\ f = "id_proveedor_nombre" ->
                filledIfAny(fields[f], data)
          [] kind = "proveedor" /\ f = "id_proveedor_cuit" ->
                filledIfAny(fields[f], IF id # << >> THEN id ELSE raw)
          [] OTHER -> fields[f]]

\* The response to a lookup arrives.  A response that found something
\* carries a text (or none) for the name, address and neighbourhood and an
\* id (or none; for a provider, its CUIT); a response that found nothing and
\* a failed request change the alert box only.
LookupArrives(r) ==
    /\ r \in lFlying
    /\ lFlying' = lFlying \ {r}
    /\ \/ \E data \in LookupValues, id \in LookupIds :
             lField' = foundFields(lKind, lField, data, id, r.raw)
       \/ lField' = lField
    /\ lLast' = [type |-> "response", before |-> lField]
    /\ UNCHANGED << lKind, lLastDni, normVars, formVars, searchVars, blockVars, catVars, loadVars >>

LookupNext ==
    \/ \E id \in lookupIds(lKind) : LookupEdit(id)
    \/ DniBlurLookup
    \/ CuitBlurLookup
    \/ \E r \in lFlying : LookupArrives(r)

SpecLookup == LookupInit /\ [][LookupNext]_vars

(***************************************************************************)
(* The category filter of the movement form: the options of id_categoria   *)
(* are rebuilt from the options the page was rendered with each time       *)
(* id_tipo changes, according to the map of the categoria-tipos-data       *)
(* script.                                                                 *)
(***************************************************************************)
Tipos == {"", "INGRESO", "GASTO", "TRANSFERENCIA"}

\* the option values of the select as rendered: with and without the empty
\* option, one real category twice
RenderedOptions ==
    { << "", "1", "2", "3" >>, << "1", "2", "3" >>, << "", "2", "1", "2" >> }

\* JSON.parse(dataScript.textContent || "{}"): a tipo for some of the
\* categories, "" for a category the map does not hold; categoriaMap stays
\* null when the text cannot be parsed
CategoriaMaps ==
    [parsed : {TRUE}, of : [{"1", "2", "3"} -> Tipos]]
        \cup {[parsed |-> FALSE, of |-> [v \in {"1", "2", "3"} |-> ""]]}

\* variant of keeps: every option passes the filter
keepsAll(map, tipo, v) == TRUE

\* the callback of categoriaOptions.filter
keeps(map, tipo, v) ==
    IF v = "" THEN TRUE
    ELSE IF map[v] = "" THEN TRUE
    ELSE IF tipo = "TRANSFERENCIA" THEN map[v] = "TRANSFERENCIA"
    ELSE map[v] = tipo

\* optionsToUse
optionsToUse(options, map, tipo) ==
    IF tipo = "" THEN options
    ELSE SelectSeq(options, LAMBDA v : keeps(map, tipo, v))

\* categoriaSelect.value: the value of the selected option, "" without one
selectValue(shown, selected) == IF selected = 0 THEN "" ELSE shown[selected]

\* categoriaSelect.value = currentValue selects the first option with that
\* value; selectedIndex = 0 the first option, when there is one
selectedAfter(shown, currentValue) ==
    IF \E i \in 1..Len(shown) : shown[i] = currentValue
    THEN CHOOSE i \in 1..Len(shown) :
            /\ shown[i] = currentValue
            /\ \A j \in 1..(i - 1) : shown[j] # currentValue
    ELSE IF Len(shown) > 0 THEN 1 ELSE 0

\* aplicarFiltroCategorias: nothing happens without a map
aplicarFiltroCategorias ==
    IF ~cMap.parsed \/ Len(cOptions) = 0
    THEN UNCHANGED << cShown, cSelected >>
    ELSE /\ cShown' = optionsToUse(cOptions, cMap.of, cTipo')
         /\ cSelected' = selectedAfter(cShown', selectValue(cShown, cSelected))

\* The page as rendered, before the script runs: every option is in the
\* select and one of them is selected.
CatInit ==
    /\ NormOff
    /\ FormOff
    /\ SearchOff
    /\ BlockOff
    /\ LookupOff
    /\ LoadOff
    /\ cMap \in CategoriaMaps
    /\ cOptions \in RenderedOptions
    /\ cTipo \in Tipos
    /\ cShown = cOptions
    /\ cSelected \in 1..Len(cOptions)
    /\ cLast = [type |-> "page", value |-> "", shown |-> << >>]

\* DOMContentLoaded: the first call of aplicarFiltroCategorias
CatSetup ==
    /\ cLast.type = "page"
    /\ cTipo' = cTipo
    /\ aplicarFiltroCategorias
    /\ cLast' = [type |-> "setup", value |-> selectValue(cShown, cSelected),
                 shown |-> cShown]
    /\ UNCHANGED << cMap, cOptions, normVars, formVars, searchVars, blockVars, lookupVars, loadVars >>

\* change listener of id_tipo
TipoChange(t) ==
    /\ cLast.type # "page"
    /\ t # cTipo
    /\ cTipo' = t
    /\ aplicarFiltroCategorias
    /\ cLast' = [type |-> "change", value |-> selectValue(cShown, cSelected),
                 shown |-> cShown]
    /\ UNCHANGED << cMap, cOptions, normVars, formVars, searchVars, blockVars, lookupVars, loadVars >>

\* the user selects one of the options the select shows
CategoriaSelect(i) ==
    /\ cLast.type # "page"
    /\ i \in 1..Len(cShown)
    /\ i # cSelected
    /\ cSelected' = i
    /\ cLast' = [type |-> "select", value |-> selectValue(cShown, cSelected),
                 shown |-> cShown]
    /\ UNCHANGED << cMap, cOptions, cTipo, cShown, normVars, formVars, searchVars,
                    blockVars, lookupVars, loadVars >>

CatNext ==
    \/ CatSetup
    \/ \E t \in Tipos : TipoChange(t)
    \/ \E i \in 1..4 : CategoriaSelect(i)

SpecCat == CatInit /\ [][CatNext]_vars

(***************************************************************************)
(* The movement form, version 99: applyTipoMode, applyCategoriaMode and    *)
(* loadCategorias.  The category select is refilled from the server each   *)
(* time the tipo changes; the aid and fuel fields follow the flags of the  *)
(* selected category.                                                      *)
(***************************************************************************)
MaxLoads == 2    \* category requests without a response at one time

\* programaAyuda, tipoPagoPersona, programaAyudaTexto
AyudaFields == {"id_programa_ayuda", "id_tipo_pago_persona", "id_programa_ayuda_texto"}

\* vehiculoSelect, litrosInput, tipoCombustible, precioUnitario
FuelFields == {"id_vehiculo", "id_litros", "id_tipo_combustible", "id_precio_unitario"}

\* the fields applyCategoriaMode calls setRequired on
RequiredFields == {"id_tipo_pago_persona"} \cup FuelFields

\* <option value="">---------</option>: an option without data attributes
placeholderOpt == [value |-> "", ayuda |-> "", combustible |-> ""]

\* what the server holds for a tipo: the items of the response
catalog(tipo) ==
    CASE tipo = "GASTO" ->
            << [id |-> "1", es_ayuda_social |-> TRUE, es_combustible |-> FALSE],
               [id |-> "2", es_ayuda_social |-> FALSE, es_combustible |-> TRUE],
               [id |-> "3", es_ayuda_social |-> TRUE, es_combustible |-> TRUE],
               [id |-> "4", es_ayuda_social |-> FALSE, es_combustible |-> FALSE] >>
      [] tipo = "INGRESO" ->
            << [id |-> "5", es_ayuda_social |-> FALSE, es_combustible |-> FALSE] >>
      [] OTHER -> << >>

\* the option built for an item: opt.value = String(it.id ?? ...),
\* opt.dataset.ayuda = ayuda ? "1" : "0", opt.dataset.combustible likewise
optionOf(it) ==
    [value |-> it.id,
     ayuda |-> IF it.es_ayuda_social THEN "1" ELSE "0",
     combustible |-> IF it.es_combustible THEN "1" ELSE "0"]

\* the select after a response with the items of a tipo: the placeholder
\* and one option for each item
optionsFor(tipo) ==
    << placeholderOpt >> \o [i \in 1..Len(catalog(tipo)) |-> optionOf(catalog(tipo)[i])]

\* variant of getCategoriaFlags: the two data attributes are read crosswise
getCategoriaFlagsCrossed(opt) ==
    [ayuda |-> opt.combustible = "1", combustible |-> opt.ayuda = "1"]

\* getCategoriaFlags
getCategoriaFlags(opt) ==
    [ayuda |-> opt.ayuda = "1", combustible |-> opt.combustible = "1"]

\* isGasto, isIngreso, isTransfer: norm(t) compared with the lower-case name
isGasto(t) == t = "GASTO"
isIngreso(t) == t = "INGRESO"
isTransfer(t) == t = "TRANSFERENCIA"

\* applyTipoMode: the required attribute of the two account inputs
applyTipoMode(tipo) ==
    [origen |-> isGasto(tipo) \/ isTransfer(tipo),
     destino |-> isIngreso(tipo) \/ isTransfer(tipo)]

\* applyCategoriaMode for the selected option opt: everything is disabled
\* first; a category flagged ayuda enables the aid fields, else one flagged
\* combustible enables the fuel fields
applyCategoriaMode(tipo, opt, tab) ==
    LET flags == getCategoriaFlags(opt)
        mode == IF opt.value = "" THEN "none"
                ELSE IF flags.ayuda THEN "ayuda"
                ELSE IF flags.combustible THEN "combustible"
                ELSE "proveedor"
    IN  [disabled |-> [f \in AyudaFields \cup FuelFields |->
                         IF f \in AyudaFields THEN mode # "ayuda"
                         ELSE mode # "combustible"],
         required |-> [f \in RequiredFields |->
                         IF f \in FuelFields THEN mode = "combustible"
                         ELSE mode = "ayuda"],
         meta |-> IF mode = "ayuda" THEN "badge badge-ayuda"
                  ELSE IF mode = "combustible" THEN "badge badge-combustible"
                  ELSE "badge d-none",
         tab |-> IF mode = "ayuda" THEN "ayuda-tab"
                 ELSE IF mode = "combustible" THEN "vehiculo-tab"
                 ELSE IF mode = "proveedor" THEN "proveedor-tab"
                 ELSE IF isGasto(tipo) THEN "proveedor-tab"
                 ELSE tab]

\* the selected option of a select
selectedOption(shown, selected) ==
    IF selected = 0 THEN placeholderOpt ELSE shown[selected]

\* applyCategoriaMode as it changes the page, for the select as it will be
ApplyCategoriaMode ==
    LET m == applyCategoriaMode(kTipo', selectedOption(kShown', kSelected'), kTab)
    IN  /\ kDisabled' = m.disabled
        /\ kRequired' = m.required
        /\ kMeta' = m.meta
        /\ kTab' = m.tab

\* The page as rendered: the select holds the placeholder and the options of
\* the tipo rendered, one of them selected; the required attributes are as
\* the form declares them.
LoadInit ==
    /\ NormOff
    /\ FormOff
    /\ SearchOff
    /\ BlockOff
    /\ LookupOff
    /\ CatOff
    /\ kTipo \in Tipos
    /\ kShown = optionsFor(kTipo)
    /\ kSelected \in 1..Len(kShown)
    /\ kCatDisabled = FALSE
    /\ kLoading = FALSE
    /\ kDisabled = [f \in AyudaFields \cup FuelFields |-> FALSE]
    /\ \E r \in BOOLEAN : kRequired = [f \in RequiredFields |-> r]
    /\ kMeta = "badge d-none"
    /\ kTab = "proveedor-tab"
    /\ kCuenta = [origen |-> FALSE, destino |-> FALSE]
    /\ kFlying = {}
    /\ kLast = [type |-> "page", applied |-> FALSE, slot |-> 0]

\* the slot of the next request
freeSlot == CHOOSE n \in 1..MaxLoads : \A r \in kFlying : r.slot # n

\* loadCategorias up to its first await: the select is reset to the
\* placeholder; without a tipo applyCategoriaMode runs and the call is over,
\* with one the select is disabled and the request sent
LoadCategorias ==
    /\ kShown' = << placeholderOpt >>
    /\ kSelected' = 1
    /\ IF kTipo' = ""
       THEN /\ ApplyCategoriaMode
            /\ UNCHANGED << kCatDisabled, kLoading, kFlying >>
       ELSE /\ Cardinality(kFlying) < MaxLoads
            /\ kLoading' = TRUE
            /\ kCatDisabled' = TRUE
            /\ kFlying' = kFlying \cup {[slot |-> freeSlot, tipo |-> kTipo']}
            /\ UNCHANGED << kDisabled, kRequired, kMeta, kTab >>

\* bind: applyTipoMode, and loadCategorias when a tipo is rendered
Bind ==
    /\ kLast.type = "page"
    /\ kTipo' = kTipo
    /\ kCuenta' = applyTipoMode(kTipo)
    /\ IF kTipo # ""
       THEN LoadCategorias
       ELSE UNCHANGED << kShown, kSelected, kCatDisabled, kLoading, kFlying,
                         kDisabled, kRequired, kMeta, kTab >>
    /\ kLast' = [type |-> "bind", applied |-> FALSE, slot |-> 0]
    /\ UNCHANGED << normVars, formVars, searchVars, blockVars, lookupVars, catVars >>

\* change listener of tipoEl: applyAll
TipoElChange(t) ==
    /\ kLast.type # "page"
    /\ t # kTipo
    /\ kTipo' = t
    /\ kCuenta' = applyTipoMode(t)
    /\ LoadCategorias
    /\ kLast' = [type |-> "tipo", applied |-> (t = ""), slot |-> 0]
    /\ UNCHANGED << normVars, formVars, searchVars, blockVars, lookupVars, catVars >>

\* change listener of categoriaEl (and select2:select, select2:clear): the
\* user selects an option of the enabled select
CategoriaElChange(i) ==
    /\ kLast.type # "page"
    /\ ~kCatDisabled
    /\ i \in 1..Len(kShown)
    /\ i # kSelected
    /\ kSelected' = i
    /\ kShown' = kShown
    /\ kTipo' = kTipo
    /\ ApplyCategoriaMode
    /\ kLast' = [type |-> "categoria", applied |-> TRUE, slot |-> 0]
    /\ UNCHANGED << kCatDisabled, kLoading, kCuenta, kFlying,
                    normVars, formVars, searchVars, blockVars, lookupVars, catVars >>

\* how a request ends: a response with the items, an HTTP error, an empty
\* body, a body that is neither JSON nor options
LoadOutcomes == {"ok", "http", "empty", "invalid"}

\* variant of finallyDisabled: the finally block leaves the select as it is
finallyKept(was) == was

\* finally: setDisabled(categoriaEl, false)
finallyDisabled(was) == FALSE

\* loadCategorias from its first await on, for the request r: a response
\* with items rebuilds the options, everything else is caught; the finally
\* block enables the select, hides the indicator and runs applyCategoriaMode
LoadArrives(r, outcome) ==
    /\ r \in kFlying
    /\ kFlying' = kFlying \ {r}
    /\ kTipo' = kTipo
    /\ IF outcome = "ok"
       THEN /\ kShown' = optionsFor(r.tipo)
            /\ kSelected' = 1
       ELSE UNCHANGED << kShown, kSelected >>
    /\ kCatDisabled' = finallyDisabled(kCatDisabled)
    /\ kLoading' = FALSE
    /\ ApplyCategoriaMode
    /\ kLast' = [type |-> "finally", applied |-> TRUE, slot |-> r.slot]
    /\ UNCHANGED << kCuenta, normVars, formVars, searchVars, blockVars, lookupVars, catVars >>

LoadNext ==
    \/ Bind
    \/ \E t \in Tipos : TipoElChange(t)
    \/ \E i \in 1..5 : CategoriaElChange(i)
    \/ \E r \in kFlying : \E outcome \in LoadOutcomes : LoadArrives(r, outcome)

SpecLoad == LoadInit /\ [][LoadNext]_vars

\* every fetch settles: the response to an outstanding request arrives or
\* the request fails
SpecLoadFair ==
    /\ SpecLoad
    /\ \A n \in 1..MaxLoads :
          WF_vars(\E r \in kFlying : \E outcome \in LoadOutcomes :
                      r.slot = n /\ LoadArrives(r, outcome))

(***************************************************************************)
(* Vocabulary of the properties.  These definitions restate the expected   *)
(* results from positions in the text; none of them uses the operators     *)
(* that model the code.                                                    *)
(***************************************************************************)
\* ^\d+\.\d{2}$
IsCanonical(s) ==
    /\ Len(s) >= 4
    /\ s[Len(s) - 2] = "."
    /\ \A i \in 1..Len(s) : i # Len(s) - 2 => s[i] \in Digits

Has(s, ch) == \E i \in 1..Len(s) : s[i] = ch
FirstPos(s, ch) == CHOOSE i \in 1..Len(s) : s[i] = ch /\ \A j \in 1..Len(s) : s[j] = ch => i <= j
LastPos(s, ch) == CHOOSE i \in 1..Len(s) : s[i] = ch /\ \A j \in 1..Len(s) : s[j] = ch => j <= i
DigitsIn(s) == SelectSeq(s, LAMBDA c : c \in Digits)
Stripped(s) == SelectSeq(s, LAMBDA c : c \in Digits \cup Separators)
NoNumericChar(s) == \A i \in 1..Len(s) : s[i] \notin Digits \cup Separators
OrZero(ds) == IF ds = << >> THEN << "0" >> ELSE ds
ZeroZero == << "0", ".", "0", "0" >>

\* a fraction of exactly two digits: padded with "0", cut after the second
CutPad(fs) ==
    IF Len(fs) >= 2 THEN << fs[1], fs[2] >>
    ELSE IF Len(fs) = 1 THEN << fs[1], "0" >>
    ELSE << "0", "0" >>

\* the amount read with the separator at position p as the decimal point:
\* every digit before p, ".", the digits after p as a two-digit fraction
ReadAt(t, p) ==
    OrZero(DigitsIn(SubSeq(t, 1, p - 1))) \o << "." >>
      \o CutPad(DigitsIn(SubSeq(t, p + 1, Len(t))))

\* all digits of the text as an integer amount
ReadInteger(t) == OrZero(DigitsIn(t)) \o << ".", "0", "0" >>

\* the integer part of a canonical value without its leading zeros
RECURSIVE DropLeadingZeros(_)
DropLeadingZeros(c) ==
    IF Len(c) > 4 /\ c[1] = "0" THEN DropLeadingZeros(Tail(c)) ELSE c

(***************************************************************************)
(* C1 - normalizeToEnglish is total and its result is the empty string or  *)
(* a canonical value: one or more digits, a ".", exactly two digits.       *)
(***************************************************************************)
C1_CanonicalOrEmpty ==
    /\ nPc = "start" =>
          LET r == normalizeToEnglish(nIn) IN r = << >> \/ IsCanonical(r)
    /\ nPc \notin {"start", "off"} => nEng = << >> \/ IsCanonical(nEng)

C1_Witness ==
    /\ nPc = "normalized"
    /\ IsCanonical(nEng)
    /\ Has(nIn, "a") /\ Has(nIn, ",") /\ Has(nIn, ".")

(***************************************************************************)
(* C4 - round trip.  As claimed: for every canonical c, leading zeros      *)
(* included, normalizeToEnglish(formatEsAr(c)) = c.                        *)
(***************************************************************************)
C4_RoundTripAll ==
    (nPc = "done" /\ IsCanonical(nEng)) => nBack = nEng

\* C4 as amended: the round trip gives back c when its integer part has no
\* leading zero, and c without the leading zeros of its integer part otherwise.
C4_RoundTripNoLeadingZeros ==
    (nPc = "done" /\ IsCanonical(nEng)) =>
        /\ nBack = DropLeadingZeros(nEng)
        /\ DropLeadingZeros(nEng) = nEng => nBack = nEng

C4_Witness ==
    /\ nPc = "done"
    /\ IsCanonical(nEng)
    /\ DropLeadingZeros(nEng) = nEng
    /\ Has(nShown, ".") /\ Has(nShown, ",")
    /\ nBack = nEng

(***************************************************************************)
(* C5 - idempotence: normalising a normalised text changes nothing.        *)
(***************************************************************************)
C5_Idempotent ==
    nPc \in {"renormalized", "formatted", "done"} => nAgain = nEng

C5_Witness ==
    /\ nPc = "renormalized"
    /\ IsCanonical(nEng)
    /\ nIn # nEng
    /\ nAgain = nEng

(***************************************************************************)
(* C6 - text with both separators: the one whose last occurrence is        *)
(* further right is the decimal separator, the other is dropped, and the   *)
(* result is the digits before the decimal separator, ".", and the         *)
(* two-digit fraction.  The decimal separator is taken at its last or at   *)
(* its first occurrence, whichever fits the result.                        *)
(***************************************************************************)
C6_BothSeparators ==
    LET t == Stripped(nIn)
    IN  (nPc \notin {"start", "off"} /\ Has(t, ",") /\ Has(t, ".")) =>
            LET d == IF LastPos(t, ",") > LastPos(t, ".") THEN "," ELSE "."
            IN  nEng \in {ReadAt(t, LastPos(t, d)), ReadAt(t, FirstPos(t, d))}

(***************************************************************************)
(* C7 - text whose only separator is ".": 1 or 2 characters after the last *)
(* "." make it the decimal separator, otherwise the text is the integer    *)
(* made of all its digits.                                                 *)
(***************************************************************************)
C7_DotOnly ==
    LET t == Stripped(nIn)
    IN  (nPc \notin {"start", "off"} /\ Has(t, ".") /\ ~Has(t, ",")) =>
            IF Len(t) - LastPos(t, ".") \in {1, 2}
            THEN nEng \in {ReadAt(t, LastPos(t, ".")), ReadAt(t, FirstPos(t, "."))}
            ELSE nEng = ReadInteger(t)

(***************************************************************************)
(* C8 - text whose only separator is ",": the result is the digits before  *)
(* the comma, ".", and the digits after it as a two-digit fraction; text   *)
(* with no separator gives its digits followed by ".00".                   *)
(***************************************************************************)
C8_CommaOnlyOrNone ==
    LET t == Stripped(nIn)
    IN  (nPc \notin {"start", "off"} /\ t # << >> /\ ~Has(t, ".")) =>
            IF Has(t, ",")
            THEN nEng \in {ReadAt(t, FirstPos(t, ",")), ReadAt(t, LastPos(t, ","))}
            ELSE nEng = ReadInteger(t)

(***************************************************************************)
(* C9 - in every branch the fraction is padded with "0" to two digits and  *)
(* cut after its second digit, never rounded, and an empty integer part    *)
(* becomes "0".  The fraction of a branch is the run of text it reads      *)
(* after the decimal separator, up to the next occurrence of it; a branch  *)
(* without a decimal separator has fraction "00".                          *)
(***************************************************************************)
DecimalSep(t) ==
    IF Has(t, ",") /\ Has(t, ".")
    THEN (IF LastPos(t, ",") > LastPos(t, ".") THEN "," ELSE ".")
    ELSE IF Has(t, ",") THEN ","
    ELSE IF Has(t, ".") /\ Len(t) - LastPos(t, ".") \in {1, 2} THEN "."
    ELSE "none"

IntegerRun(t, d) == DigitsIn(SubSeq(t, 1, FirstPos(t, d) - 1))

FractionRun(t, d) ==
    LET rest == SubSeq(t, FirstPos(t, d) + 1, Len(t))
        stop == IF Has(rest, d) THEN FirstPos(rest, d) ELSE Len(rest) + 1
    IN  DigitsIn(SubSeq(rest, 1, stop - 1))

IntegerOf(c) == SubSeq(c, 1, Len(c) - 3)
FractionOf(c) == SubSeq(c, Len(c) - 1, Len(c))

C9_PadCutAndZero ==
    LET t == Stripped(nIn)
        d == DecimalSep(t)
    IN  /\ (nPc \notin {"start", "off"} /\ t # << >>) =>
              IF d = "none"
              THEN /\ FractionOf(nEng) = << "0", "0" >>
                   /\ IntegerOf(nEng) = OrZero(DigitsIn(t))
              ELSE /\ FractionOf(nEng) = CutPad(FractionRun(t, d))
                   /\ IntegerOf(nEng) = OrZero(IntegerRun(t, d))
        /\ normalizeToEnglish(<< "1", ",", "9", "9", "9" >>)
             = << "1", ".", "9", "9" >>
        /\ normalizeToEnglish(<< ",", "5" >>) = << "0", ".", "5", "0" >>

\* a fraction longer than two digits whose third digit would round up, and
\* an empty integer part, in one text
C9_Witness ==
    /\ nPc = "normalized"
    /\ nIn = << ",", "1", "9", "9" >>
    /\ nEng = << "0", ".", "1", "9" >>

(***************************************************************************)
(* C10 - as claimed: "" gives "", and a non-empty text without any digit,  *)
(* "." or "," gives "0.00".                                                *)
(***************************************************************************)
C10_LettersGiveZero ==
    nPc \notin {"start", "off"} =>
        /\ nIn = << >> => nEng = << >>
        /\ (nIn # << >> /\ NoNumericChar(nIn)) => nEng = ZeroZero

\* C10 as amended: "" gives "", a non-empty text without any digit, "." or
\* "," gives "" as well, and "0.00" is the result for a text that has a
\* separator but no digit.
C10_LettersGiveEmpty ==
    nPc \notin {"start", "off"} =>
        /\ nIn = << >> => nEng = << >>
        /\ (nIn # << >> /\ NoNumericChar(nIn)) => nEng = << >>
        /\ (Stripped(nIn) # << >> /\ DigitsIn(nIn) = << >>) => nEng = ZeroZero

C10_Witness ==
    /\ nPc = "normalized"
    /\ nIn = << "a", "a", "a" >>
    /\ nEng = << >>

(***************************************************************************)
(* C2 - at every submit the hidden input of each money field, the only one *)
(* of the pair that carries the field's name, holds "" or a canonical      *)
(* value.                                                                  *)
(***************************************************************************)
C2_SubmittedCanonical ==
    last.type = "submit" =>
        \A f \in MoneyFields :
            /\ named[f] = "hidden"
            /\ hidden[f] = << >> \/ IsCanonical(hidden[f])

\* a submit while id_monto still shows text as typed, ending in a separator,
\* with one fuel money field filled in and the other empty
C2_Witness ==
    /\ last.type = "submit"
    /\ focus = "id_monto"
    /\ value["id_monto"] # << >>
    /\ value["id_monto"][Len(value["id_monto"])] \in Separators
    /\ IsCanonical(hidden["id_monto"])
    /\ \E f \in CombustibleMoney : IsCanonical(hidden[f])
    /\ \E f \in CombustibleMoney : hidden[f] = << >>

(***************************************************************************)
(* C3 - after every input event on a money field its visible text holds    *)
(* only digits, "." and ",", and its hidden input holds                    *)
(* normalizeToEnglish of that visible text.                                *)
(***************************************************************************)
C3_InputMirrored ==
    last.type = "input" =>
        /\ \A i \in 1..Len(value[last.field]) :
              value[last.field][i] \in Digits \cup Separators
        /\ hidden[last.field] = normalizeToEnglish(value[last.field])

\* an input event that stripped a character from a text that stays non-empty
C3_Witness ==
    /\ last.type = "input"
    /\ last.stripped
    /\ value[last.field] # << >>
    /\ IsCanonical(hidden[last.field])

(***************************************************************************)
(* C11 - normalizeToEnglish first strips every character other than        *)
(* digits, "." and ",": its result is that of the stripped text, and when  *)
(* nothing is left after stripping the result is the empty value.          *)
(***************************************************************************)
C11_StripFirst ==
    nPc \notin {"start", "off"} =>
        /\ nEng = normalizeToEnglish(Stripped(nIn))
        /\ Stripped(nIn) = << >> => nEng = << >>
        /\ Stripped(nIn) # << >> => nEng # << >>

\* a text with stripped characters between its digits, and after the "."
C11_Witness ==
    /\ nPc = "normalized"
    /\ nIn = << "a", "1", ".", "1", "a" >>
    /\ nEng = << "1", ".", "1", "0" >>

(***************************************************************************)
(* C12 - for every canonical value formatEsAr writes the same number with  *)
(* "." between groups of three integer digits, "," before exactly two      *)
(* fraction digits; the empty value gives the empty text.                  *)
(***************************************************************************)
\* the display text read back digit by digit: the "." dropped, "," as "."
Undisplayed(d) ==
    [i \in 1..Len(SelectSeq(d, LAMBDA c : c # ".")) |->
        LET u == SelectSeq(d, LAMBDA c : c # ".")
        IN  IF u[i] = "," THEN "." ELSE u[i]]

\* "." exactly at every fourth place left of the ",", none at the front
GroupedByThree(d) ==
    LET n == Len(d) - 3
    IN  /\ n >= 1
        /\ d[n + 1] = ","
        /\ d[1] # "."
        /\ \A i \in 1..n : (d[i] = ".") <=> ((n - i + 1) % 4 = 0)
        /\ d[Len(d) - 1] \in Digits /\ d[Len(d)] \in Digits

C17_SameDot ==
    LET t == Stripped(nIn)
        dots == {i \in 1..Len(t) : t[i] = "."}
    IN  (/\ nPc \notin {"start", "off"}
         /\ ~Has(t, ",")
         /\ Cardinality(dots) >= 2
         /\ Len(t) - LastPos(t, ".") \in {1, 2}) =>
            nEng = ReadAt(t, LastPos(t, "."))

(***************************************************************************)
(* C13 - after a blur on a money field that held text, and after the       *)
(* initial load of a field that held a server value, the hidden input is   *)
(* normalizeToEnglish of that text and the visible input is formatEsAr of  *)
(* the hidden input; a blur on an empty field leaves both empty.           *)
(***************************************************************************)
SettledFrom(f, b) ==
    IF b # << >>
    THEN /\ hidden[f] = normalizeToEnglish(b)
         /\ value[f] = formatEsAr(hidden[f])
    ELSE /\ hidden[f] = << >>
         /\ value[f] = << >>

\* a step in which the money input f loses the focus to its blur listener
BlurOf(f) == focus = f /\ focus' = "none" /\ last'.type = "blur"

\* what such a step leaves in the two inputs, from the text it found
BlurSettles ==
    \A f \in MoneyFields :
        BlurOf(f) =>
            IF value[f] # << >>
            THEN /\ hidden'[f] = normalizeToEnglish(value[f])
                 /\ value'[f] = formatEsAr(hidden'[f])
            ELSE /\ hidden'[f] = << >>
                 /\ value'[f] = << >>

C13_BlurAndLoadSettle ==
    /\ [](last.type = "load" =>
            \A f \in MoneyFields :
                last.before[f] # << >> => SettledFrom(f, last.before[f]))
    /\ [][BlurSettles]_vars

\* a blur has left a canonical number in the hidden input and its display
\* text in the visible one
C13_Witness ==
    /\ last.type = "blur"
    /\ IsCanonical(hidden[last.field])
    /\ Has(value[last.field], ",")
    /\ Len(value[last.field]) = Len(hidden[last.field])

(***************************************************************************)
(* C14: in the person-name searches (attention form, movement form) and    *)
(* the vehicle search, a new request cancels the one in flight: the        *)
(* suggestion list is never rendered, nor cleared, by the response to a    *)
(* request that a later request has superseded, and no request but the     *)
(* one issued last is in flight without being aborted.                     *)
(***************************************************************************)
C14_AbortSuperseded ==
    sKind \in {"persona", "beneficiario", "vehiculo"} =>
        /\ sLast.type \in {"render", "error"} => sLast.id = sIssued
        /\ \A r \in sFlying : r.id < sIssued => r.aborted

\* the second request's items are rendered while the first request, aborted,
\* has not settled yet
C14_Witness ==
    /\ sKind = "persona"
    /\ sIssued = 2
    /\ sLast = [type |-> "render", id |-> 2, armed |-> FALSE]
    /\ sList = 2
    /\ \E r \in sFlying : r.id = 1 /\ r.aborted

(***************************************************************************)
(* C15: in the provider-name search and the work-order requester search    *)
(* the latest request wins: once a later request has been issued, the      *)
(* response to an earlier request never replaces the suggestion list.      *)
(***************************************************************************)
C15_LatestWins ==
    (sKind \in {"proveedor", "solicitante"} /\ sLast.type = "render") =>
        sLast.id = sIssued

(***************************************************************************)
(* C16: debounce.  In the person and the provider search (250 ms) and the  *)
(* requester search (300 ms) a burst of keystrokes spaced closer than the  *)
(* delay sends at most one request; once the burst has ended, a request    *)
(* it sent is for the text in the field, and none was sent when the field  *)
(* holds fewer than 2 characters.                                          *)
(***************************************************************************)
ClaimedDelay(kind) == IF kind = "solicitante" THEN 300 ELSE 250

\* the text without the blanks at its ends
Trimmed(s) ==
    LET solid == { i \in 1..Len(s) : s[i] # " " }
    IN  IF solid = {} THEN << >>
        ELSE SubSeq(s, CHOOSE i \in solid : \A j \in solid : i <= j,
                       CHOOSE i \in solid : \A j \in solid : i >= j)

\* the delay has passed since the last keystroke and no timer is pending
BurstOver == sGap >= ClaimedDelay(sKind) /\ ~sTimer.on

C16_Debounce ==
    sKind \in {"persona", "beneficiario", "proveedor", "solicitante"} =>
        /\ (sLast.armed /\ sGap = 0) => sTimer.left = ClaimedDelay(sKind)
        /\ sBurst.sent <= 1
        /\ (BurstOver /\ sBurst.sent = 1) => sBurst.q \in {sText, Trimmed(sText)}
        /\ (BurstOver /\ Len(sText) < 2) => sBurst.sent = 0

(***************************************************************************)
(* C18: after setupSectionToggle has initialised a block, and after every  *)
(* change event of its toggle: a checked toggle means the section is       *)
(* visible and every field of the block enabled; an unchecked toggle means *)
(* the section is hidden and every field disabled and empty, together      *)
(* with the field's "_hidden" input.  This holds for proveedor,            *)
(* beneficiario and combustible.                                           *)
(***************************************************************************)
BlockSettled ==
    IF bChecked
    THEN /\ bShown
         /\ \A id \in DOMAIN bField : ~bDisabled[id]
    ELSE /\ ~bShown
         /\ \A id \in DOMAIN bField : bDisabled[id] /\ bField[id] = << >>
         /\ \A id \in DOMAIN bShadow : bShadow[id] = << >>

C18_ToggleSettles ==
    bLast.type \in {"toggle-init", "ready", "change"} => BlockSettled

\* a change event switched the combustible block off while its litres field
\* and its hidden input held a number
C18_Witness ==
    /\ bBlock = "combustible"
    /\ bLast.type = "change"
    /\ bLast.checked
    /\ ~bChecked
    /\ bLast.before["id_litros"] = << "1", ",", "0", "0" >>
    /\ bLast.before["id_vehiculo_texto"] = << "1" >>
    /\ bShadow["id_litros"] = << >>

(***************************************************************************)
(* C19: edit-mode preservation.  When setupSectionToggle initialises a     *)
(* block of which some field holds a non-blank value, the toggle is        *)
(* checked afterwards and no field value of the block has changed; a       *)
(* field value has changed only when every field of the block was blank.   *)
(***************************************************************************)
Blank(v) == \A i \in 1..Len(v) : v[i] = " "

C20_HiddenBlockEmpty ==
    (bBlock = "beneficiario" /\ bLast.type \notin {"off", "page"} /\ ~bChecked) =>
        \A id \in DOMAIN bField : bField[id] = << >>

(***************************************************************************)
(* C21: a DNI or CUIT lookup response writes only into fields that are     *)
(* empty when it is processed.  As claimed: every field that holds text is *)
(* left unchanged by every response.  As the code has it: every text       *)
(* input that holds text is left unchanged, the field the number was       *)
(* typed into is written only by the CUIT lookup and only when empty, and  *)
(* the person select of the attention form takes the id of the person      *)
(* found whatever it held.                                                 *)
(***************************************************************************)
KeptByResponse(ids) ==
    lLast.type = "response" =>
        \A id \in ids : lLast.before[id] # << >> => lField[id] = lLast.before[id]

C21_AllFieldsKept == KeptByResponse(DOMAIN lField)

C21_TextFieldsKept ==
    /\ KeptByResponse(DOMAIN lField \ {"id_persona"})
    /\ lLast.type = "response" =>
          \A id \in DOMAIN lField \cap {"id_beneficiario_dni", "id_persona_dni"} :
              lField[id] = lLast.before[id]

\* a response of the attention form found a name in place and no
\* neighbourhood: the name is kept, the neighbourhood filled in
C21_Witness ==
    /\ lKind = "atencion"
    /\ lLast.type = "response"
    /\ lLast.before["id_persona_nombre"] = << "u" >>
    /\ lLast.before["id_persona_barrio"] = << >>
    /\ lField["id_persona_nombre"] = << "u" >>
    /\ lField["id_persona_barrio"] = << "a" >>

\* C22: the vehicle key and the vehicle text stay linked.  Every input event
\* on the vehicle text leaves the key empty; the key becomes a new non-empty
\* value only by the click on a suggestion, after which the text is that
\* suggestion's label; so from a page whose key, if any, is rendered with
\* the label of its vehicle, in every reachable state a non-empty key
\* implies that the text is the label of the vehicle with that key.
VehicleLinked ==
    bBlock = "combustible" =>
        (bField["id_vehiculo"] # << >> =>
            \E item \in Suggestions :
                /\ item.id = bField["id_vehiculo"]
                /\ bField["id_vehiculo_texto"] = textContent(item))

VehicleStep ==
    bBlock = "combustible" =>
        /\ (bLast'.type = "input"
              /\ bField'["id_vehiculo_texto"] # bField["id_vehiculo_texto"])
             => bField'["id_vehiculo"] = << >>
        /\ (bField'["id_vehiculo"] # bField["id_vehiculo"]
              /\ bField'["id_vehiculo"] # << >>)
             => (bLast'.type = "pick" /\ VehicleLinked')

Range(seq) == { seq[i] : i \in 1..Len(seq) }

Allowed(v) == v = "" \/ cMap.of[v] = "" \/ cMap.of[v] = cTipo

C23_FilterShown ==
    cLast.type \notin {"off", "page"} =>
        /\ cTipo # "" => /\ \A v \in Range(cShown) : Allowed(v)
                         /\ cShown = SelectSeq(cOptions, Allowed)
        /\ cTipo = "" => cShown = cOptions
        /\ cLast.type \in {"setup", "change"} =>
              IF cLast.value \in Range(cShown)
              THEN selectValue(cShown, cSelected) = cLast.value
              ELSE (cShown # << >> => cSelected = 1)

C23_Witness ==
    /\ cLast.type = "change"
    /\ cTipo = "GASTO"
    /\ cMap.parsed
    /\ cOptions = << "", "1", "2", "3" >>
    /\ cShown = << "", "2", "3" >>
    /\ cLast.value = "1"
    /\ cSelected = 1

\* C24: after every call of applyCategoriaMode the aid fields are enabled
\* exactly when a category flagged ayuda is selected, the fuel fields are
\* enabled and required exactly when the selected category is flagged
\* combustible and not ayuda (and are disabled and not required otherwise),
\* no aid field is enabled together with a fuel field, and no field is
\* required while it is disabled.
AyudaSelected ==
    LET opt == selectedOption(kShown, kSelected)
    IN  opt.value # "" /\ opt.ayuda = "1"

FuelSelected ==
    LET opt == selectedOption(kShown, kSelected)
    IN  opt.value # "" /\ opt.combustible = "1" /\ opt.ayuda # "1"

ModeFollowsCategory ==
    /\ \A f \in AyudaFields : ~kDisabled[f] <=> AyudaSelected
    /\ \A f \in FuelFields :
          /\ (~kDisabled[f] /\ kRequired[f]) <=> FuelSelected
          /\ ~FuelSelected => (kDisabled[f] /\ ~kRequired[f])
    /\ \A a \in AyudaFields : \A f \in FuelFields : kDisabled[a] \/ kDisabled[f]
    /\ \A f \in RequiredFields : kRequired[f] => ~kDisabled[f]

C25_LoadFinishes ==
    /\ \A n \in 1..MaxLoads :
          (\E r \in kFlying : r.slot = n) ~> (kLast.type = "finally" /\ kLast.slot = n)
    /\ [](kLast.type = "finally" =>
             /\ ~kCatDisabled
             /\ ~kLoading
             /\ kLast.applied
             /\ ModeFollowsCategory)

C25_Witness ==
    /\ kLast.type = "finally"
    /\ kFlying = {}
    /\ kTipo = "GASTO"
    /\ kShown = << placeholderOpt >>
    /\ ~kCatDisabled
    /\ ~kLoading

\* C26: once no category request is outstanding the select holds the
\* options of the tipo selected now, or the placeholder alone (the only
\* content for no tipo); and the select is disabled as long as a request is
\* outstanding.
C26_LatestTipoShown ==
    /\ kFlying = {} => kShown \in {<< placeholderOpt >>, optionsFor(kTipo)}
    /\ kFlying # {} => kCatDisabled

====
